---- MODULE Spec2Model ----
(***************************************************************************)
(* canhazaxs: walk a file system tree and sort every object into buckets   *)
(* (set-uid, set-gid, writable, and with RECORD_LESS_INTERESTING readable  *)
(* and only-executable) by what a given identity may do with it.           *)
(*                                                                         *)
(* The model follows src/canhazaxs.c: main's loop over the roots, the      *)
(* recursion of scan_directory as an explicit stack of frames, the         *)
(* permission predicates on st_mode bits, and the growable entry arrays.   *)
(* The file system, libc's realpath/opendir/readdir/lstat and the identity *)
(* resolved by obtain_user_info are the environment.                       *)
(***************************************************************************)
EXTENDS Integers, Sequences, FiniteSets, TLC

VARIABLES
    fs,               \* the file system: [stat, openfail, lstatfail]
    RECORD_LESS_INTERESTING,  \* compile-time switch (#ifdef), fixed per run
    g_uid,            \* uid under test
    g_groups,         \* g_groups[1..g_ngroups], the gids under test
    argv,             \* the root arguments left after getopt
    i,                \* main's loop index (0-based, as in the source)
    pc,               \* "main", "scan", "done" (return 0), "exit" (status 1)
    stack,            \* activation records of scan_directory, innermost last
    g_suid, g_sgid, g_writable, g_readable, g_executable,  \* entries_t
    out,              \* what was written to stdout, oldest first: the
                      \* identity line, then the lines of report_findings
    err,              \* what was written to stderr, oldest first: the
                      \* warnings of obtain_user_info, the diagnostics and
                      \* the headers of report_findings
    calls             \* the arguments main handed to scan_directory, in order

vars == <<fs, RECORD_LESS_INTERESTING, g_uid, g_groups, argv, i, pc, stack,
          g_suid, g_sgid, g_writable, g_readable, g_executable, out, err, calls>>

-----------------------------------------------------------------------------
(* Platform constants.                                                     *)

\* <limits.h>: the model scales the platform's 4096 down so that the
\* length test of scan_directory is exercised by short names.
PATH_MAX == 20

\* <sys/stat.h>
S_IFMT  == \o170000
S_IFSOCK == \o140000
S_IFLNK == \o120000
S_IFREG == \o100000
S_IFBLK == \o060000
S_IFDIR == \o040000
S_IFCHR == \o020000
S_IFIFO == \o010000
S_ISUID == \o4000
S_ISGID == \o2000
S_IRUSR == \o400
S_IWUSR == \o200
S_IXUSR == \o100
S_IRGRP == \o040
S_IWGRP == \o020
S_IXGRP == \o010
S_IROTH == \o004
S_IWOTH == \o002
S_IXOTH == \o001

\* C's bitwise & on non-negative integers.
RECURSIVE BitAnd(_, _)
BitAnd(a, b) ==
    IF a = 0 \/ b = 0 THEN 0
    ELSE (a % 2) * (b % 2) + 2 * BitAnd(a \div 2, b \div 2)

S_ISLNK(m) == BitAnd(m, S_IFMT) = S_IFLNK
S_ISDIR(m) == BitAnd(m, S_IFMT) = S_IFDIR

\* The terminating byte of a C string.
NUL == "NUL"

-----------------------------------------------------------------------------
(* The file system under scan: a fixed tree of named objects; the metadata *)
(* of the objects and the failures of the system calls vary per run (fs).  *)

Nodes == 1..11

NodeName(n) ==
    CASE n = 1  -> <<>>                                   \* the root, "/"
      [] n = 2  -> <<"t","m","p">>
      [] n = 3  -> <<"r","o","o","t">>
      [] n = 4  -> <<"a">>
      [] n = 5  -> <<"d">>
      [] n = 6  -> <<"s","e","c","r","e","t">>
      [] n = 7  -> <<"l","i","n","k">>
      [] n = 8  -> <<"l","o","n","g","n","a","m","e">>
      [] n = 9  -> <<"e">>
      [] n = 10 -> <<"f">>
      [] n = 11 -> <<".","h">>

NodeParent(n) ==
    CASE n = 1 -> 0
      [] n = 2 -> 1
      [] n = 3 -> 2
      [] n \in {4, 5, 11} -> 3
      [] n \in {6, 7, 8, 9} -> 5
      [] n = 10 -> 9

\* The object a symbolic link points at (node 7 is the only link).
LinkTarget(n) == 9

Dot == <<".">>
DotDot == <<".", ".">>

\* The order in which readdir returns the names of a directory.
Listing(n) ==
    CASE n = 1 -> <<Dot, DotDot, NodeName(2)>>
      [] n = 2 -> <<NodeName(3), Dot, DotDot>>
      [] n = 3 -> <<Dot, NodeName(11), DotDot, NodeName(5), NodeName(4)>>
      [] n = 5 -> <<DotDot, NodeName(6), NodeName(7), Dot, NodeName(9), NodeName(8)>>
      [] n = 9 -> <<Dot, DotDot, NodeName(10)>>
      [] OTHER -> <<>>

\* The absolute path of an object, as the kernel resolves it.
RECURSIVE PathOf(_)
PathOf(n) ==
    IF n = 1 THEN <<"/">>
    ELSE IF NodeParent(n) = 1 THEN <<"/">> \o NodeName(n)
    ELSE PathOf(NodeParent(n)) \o <<"/">> \o NodeName(n)

\* Path resolution: the object a path names, 0 when there is none (ENOENT).
Paths == [n \in Nodes |-> PathOf(n)]

Lookup(path) ==
    IF \E n \in Nodes : Paths[n] = path
    THEN CHOOSE n \in Nodes : Paths[n] = path
    ELSE 0

\* A call's outcome: ok is FALSE for -1 or NULL, val is what it produced.
Ok(v) == [ok |-> TRUE, val |-> v]
Failure == [ok |-> FALSE, val |-> <<>>]

\* lstat(2): the metadata of the object itself, or -1.
lstat(path) ==
    LET n == Lookup(path)
    IN  IF n = 0 \/ n \in fs.lstatfail THEN Failure ELSE Ok(fs.stat[n])

\* opendir(3) followed by the readdir(3) sequence: the names, or NULL.
opendir(path) ==
    LET n == Lookup(path)
    IN  IF n = 0 \/ n \in fs.openfail THEN Failure
        ELSE IF ~S_ISDIR(fs.stat[n].st_mode) THEN Failure
        ELSE Ok(Listing(n))

\* The working directory of the process, against which realpath resolves a
\* relative argument.
Cwd == 2

\* The entry of directory d called name, 0 when there is none.
Entries == [n \in Nodes |-> [parent |-> NodeParent(n), name |-> NodeName(n)]]

DirEntry(d, name) ==
    LET e == [parent |-> d, name |-> name]
    IN  IF \E c \in Nodes : Entries[c] = e
        THEN CHOOSE c \in Nodes : Entries[c] = e
        ELSE 0

\* The components of path from position k on, the current one starting at
\* position start: the pieces between separators, empty pieces (leading,
\* trailing, repeated separators) included.
RECURSIVE Components(_, _, _)
Components(path, start, k) ==
    IF k > Len(path) THEN <<SubSeq(path, start, Len(path))>>
    ELSE IF path[k] = "/"
         THEN <<SubSeq(path, start, k - 1)>> \o Components(path, k + 1, k + 1)
    ELSE Components(path, start, k + 1)

\* Resolution of the components left, standing at object cur: 0 on ENOENT,
\* ENOTDIR or ENAMETOOLONG. A component, empty or not, is looked up in a
\* directory only; a link is followed wherever it stands; the path built so
\* far must stay shorter than PATH_MAX.
RECURSIVE ResolveFrom(_, _)
ResolveFrom(cur, comps) ==
    IF comps = <<>> THEN cur
    ELSE IF ~S_ISDIR(fs.stat[cur].st_mode) THEN 0
    ELSE LET c == Head(comps)
             next == IF c = <<>> \/ c = Dot THEN cur
                     ELSE IF c = DotDot
                          THEN (IF cur = 1 THEN 1 ELSE NodeParent(cur))
                     ELSE DirEntry(cur, c)
         IN  IF next = 0 THEN 0
             ELSE IF Len(Paths[next]) >= PATH_MAX THEN 0
             ELSE IF S_ISLNK(fs.stat[next].st_mode)
                  THEN ResolveFrom(LinkTarget(next), Tail(comps))
             ELSE ResolveFrom(next, Tail(comps))

\* realpath(3): the canonical absolute path of the object arg names, with
\* ., .., repeated separators and links resolved, or NULL (ENOENT, ENOTDIR,
\* ENAMETOOLONG). The length of arg itself is not bounded; the length of the
\* canonical path is.
realpath(arg) ==
    IF arg = <<>> THEN Failure
    ELSE LET n == IF arg[1] = "/"
                  THEN ResolveFrom(1, Components(arg, 2, 2))
                  ELSE ResolveFrom(Cwd, Components(arg, 1, 1))
         IN  IF n = 0 THEN Failure ELSE Ok(Paths[n])

-----------------------------------------------------------------------------
(* Permission evaluator.                                                   *)

in_group(gid) == \E k \in 1..Len(g_groups) : g_groups[k] = gid

is_executable(sb) ==
    IF g_uid = 0 THEN TRUE
    ELSE IF BitAnd(sb.st_mode, S_IXOTH) # 0 THEN TRUE
    ELSE IF BitAnd(sb.st_mode, S_IXUSR) # 0 /\ sb.st_uid = g_uid THEN TRUE
    ELSE IF BitAnd(sb.st_mode, S_IXGRP) # 0 /\ in_group(sb.st_gid) THEN TRUE
    ELSE FALSE

is_setuid(sb) == is_executable(sb) /\ BitAnd(sb.st_mode, S_ISUID) # 0

is_setgid(sb) == is_executable(sb) /\ BitAnd(sb.st_mode, S_ISGID) # 0

\* Variant of is_writable with the root shortcut the source keeps commented
\* out.
is_writable_root_bypass(sb) ==
    IF g_uid = 0 THEN TRUE
    ELSE IF BitAnd(sb.st_mode, S_IWOTH) # 0 THEN TRUE
    ELSE IF BitAnd(sb.st_mode, S_IWUSR) # 0 /\ sb.st_uid = g_uid THEN TRUE
    ELSE IF BitAnd(sb.st_mode, S_IWGRP) # 0 /\ in_group(sb.st_gid) THEN TRUE
    ELSE FALSE

is_writable(sb) ==
    IF BitAnd(sb.st_mode, S_IWOTH) # 0 THEN TRUE
    ELSE IF BitAnd(sb.st_mode, S_IWUSR) # 0 /\ sb.st_uid = g_uid THEN TRUE
    ELSE IF BitAnd(sb.st_mode, S_IWGRP) # 0 /\ in_group(sb.st_gid) THEN TRUE
    ELSE FALSE

is_readable(sb) ==
    IF BitAnd(sb.st_mode, S_IROTH) # 0 THEN TRUE
    ELSE IF BitAnd(sb.st_mode, S_IRUSR) # 0 /\ sb.st_uid = g_uid THEN TRUE
    ELSE IF BitAnd(sb.st_mode, S_IRGRP) # 0 /\ in_group(sb.st_gid) THEN TRUE
    ELSE FALSE

-----------------------------------------------------------------------------
(* Access bucket store: entries_t is {len, idx, head}.                     *)

NoEntries == [len |-> 0, idx |-> 0, head |-> <<>>]

\* What realloc hands back for the new last slot before it is written.
Uninitialized == [path |-> <<>>, statbuf |-> [st_mode |-> 0, st_uid |-> 0, st_gid |-> 0]]

\* Variant of record_access that puts the new entry in front.
record_access_in_front(pentries, path, sb) ==
    [len  |-> pentries.len + 1,
     idx  |-> pentries.idx + 1,
     head |-> <<[path |-> path, statbuf |-> sb]>> \o pentries.head]

\* record_access with realloc succeeding.
record_access(pentries, path, sb) ==
    LET new_next_idx == pentries.idx + 1
        grown == IF new_next_idx > pentries.len
                 THEN [pentries EXCEPT !.head = Append(@, Uninitialized),
                                       !.len = @ + 1]
                 ELSE pentries
    IN  [grown EXCEPT !.head[pentries.idx + 1] = [path |-> path, statbuf |-> sb],
                      !.idx = new_next_idx]

\* The five global buckets as one value.
Buckets ==
    [g_suid |-> g_suid, g_sgid |-> g_sgid, g_writable |-> g_writable,
     g_readable |-> g_readable, g_executable |-> g_executable]

\* Variant of record_access_level without the else chain: the entry is filed
\* under every category it matches.
record_access_level_every_match(path, sb) ==
    LET b1 == IF is_setuid(sb)
              THEN [Buckets EXCEPT !.g_suid = record_access(@, path, sb)]
              ELSE Buckets
        b2 == IF is_setgid(sb)
              THEN [b1 EXCEPT !.g_sgid = record_access(@, path, sb)] ELSE b1
        b3 == IF is_writable(sb)
              THEN [b2 EXCEPT !.g_writable = record_access(@, path, sb)] ELSE b2
        b4 == IF RECORD_LESS_INTERESTING /\ is_readable(sb)
              THEN [b3 EXCEPT !.g_readable = record_access(@, path, sb)] ELSE b3
    IN  IF RECORD_LESS_INTERESTING /\ is_executable(sb)
        THEN [b4 EXCEPT !.g_executable = record_access(@, path, sb)] ELSE b4

\* Variant of record_access_level that tests writability first.
record_access_level_writable_first(path, sb) ==
    IF is_writable(sb)
    THEN [Buckets EXCEPT !.g_writable = record_access(@, path, sb)]
    ELSE IF is_setuid(sb)
    THEN [Buckets EXCEPT !.g_suid = record_access(@, path, sb)]
    ELSE IF is_setgid(sb)
    THEN [Buckets EXCEPT !.g_sgid = record_access(@, path, sb)]
    ELSE IF RECORD_LESS_INTERESTING /\ is_readable(sb)
    THEN [Buckets EXCEPT !.g_readable = record_access(@, path, sb)]
    ELSE IF RECORD_LESS_INTERESTING /\ is_executable(sb)
    THEN [Buckets EXCEPT !.g_executable = record_access(@, path, sb)]
    ELSE Buckets

\* record_access_level: the buckets after filing (path, sb).
record_access_level(path, sb) ==
    IF is_setuid(sb)
    THEN [Buckets EXCEPT !.g_suid = record_access(@, path, sb)]
    ELSE IF is_setgid(sb)
    THEN [Buckets EXCEPT !.g_sgid = record_access(@, path, sb)]
    ELSE IF is_writable(sb)
    THEN [Buckets EXCEPT !.g_writable = record_access(@, path, sb)]
    ELSE IF RECORD_LESS_INTERESTING /\ is_readable(sb)
    THEN [Buckets EXCEPT !.g_readable = record_access(@, path, sb)]
    ELSE IF RECORD_LESS_INTERESTING /\ is_executable(sb)
    THEN [Buckets EXCEPT !.g_executable = record_access(@, path, sb)]
    ELSE Buckets

SetBuckets(b) ==
    /\ g_suid' = b.g_suid
    /\ g_sgid' = b.g_sgid
    /\ g_writable' = b.g_writable
    /\ g_readable' = b.g_readable
    /\ g_executable' = b.g_executable

\* getpwuid and getgrgid: the name of an id, "" when there is no entry.
pw_name(uid) == CASE uid = 0 -> "root" [] uid = 1000 -> "shell" [] OTHER -> ""
gr_name(gid) == CASE gid = 0 -> "root" [] OTHER -> ""

\* report_findings: the header, written to stderr, and one line per entry,
\* written to stdout. An owner or group without a name is printed as its
\* number.
report_findings(name, pentries) ==
    [header |-> [kind |-> "found", path |-> <<>>, count |-> pentries.idx,
                 name |-> name],
     lines |-> [k \in 1..pentries.idx |->
                  LET e == pentries.head[k]
                      t == BitAnd(e.statbuf.st_mode, S_IFMT)
                  IN  [type_str |-> CASE t = S_IFSOCK -> "socket"
                                      [] t = S_IFLNK -> "link"
                                      [] t = S_IFREG -> "file"
                                      [] t = S_IFBLK -> "blkdev"
                                      [] t = S_IFDIR -> "directory"
                                      [] t = S_IFCHR -> "chardev"
                                      [] t = S_IFIFO -> "fifo"
                                      [] OTHER -> "unknown",
                       mode_str |-> BitAnd(e.statbuf.st_mode, \o7777),
                       user |-> IF pw_name(e.statbuf.st_uid) # ""
                                THEN [name |-> pw_name(e.statbuf.st_uid)]
                                ELSE [id |-> e.statbuf.st_uid],
                       group |-> IF gr_name(e.statbuf.st_gid) # ""
                                 THEN [name |-> gr_name(e.statbuf.st_gid)]
                                 ELSE [id |-> e.statbuf.st_gid],
                       path |-> e.path]]]

-----------------------------------------------------------------------------
(* Path construction in the canonical_path buffer of scan_directory.       *)

\* my_stpcpy: copies src without its terminator to dst[0..]; q is the
\* returned pointer as an offset from dst. A write past the end of the
\* array lands in the bytes behind it, which the model shows as the array
\* growing.
my_stpcpy(dst, src) ==
    [buf |-> [k \in 1..(IF Len(src) > Len(dst) THEN Len(src) ELSE Len(dst)) |->
                IF k <= Len(src) THEN src[k] ELSE dst[k]],
     q   |-> Len(src)]

\* strcpy(buf + q, src): the characters of src and the terminator.
strcpy(buf, q, src) ==
    LET last == q + Len(src) + 1
    IN  [k \in 1..(IF last > Len(buf) THEN last ELSE Len(buf)) |->
           IF k <= q THEN buf[k]
           ELSE IF k < last THEN src[k - q]
           ELSE IF k = last THEN NUL
           ELSE buf[k]]

\* The C string a buffer holds: the bytes before the first terminator.
CStr(buf) ==
    IF \E k \in 1..Len(buf) : buf[k] = NUL
    THEN LET z == CHOOSE k \in 1..Len(buf) :
                     buf[k] = NUL /\ \A j \in 1..(k - 1) : buf[j] # NUL
         IN  SubSeq(buf, 1, z - 1)
    ELSE buf

\* Variant of name_too_long with > for >=.
name_too_long_gt(q, d_name) ==
    LET rhs == PATH_MAX - 1 - Len(d_name)
    IN  IF rhs < 0 THEN FALSE ELSE q > rhs

\* end - canonical_path >= PATH_MAX - 1 - strlen(d_name), compared as size_t:
\* a negative right-hand side wraps to a value above every offset.
name_too_long(q, d_name) ==
    LET rhs == PATH_MAX - 1 - Len(d_name)
    IN  IF rhs < 0 THEN FALSE ELSE q >= rhs

\* Lines 489-491: the separator unless dir ends with one, then the name.
join(buf, dir, d_name) ==
    LET c == my_stpcpy(buf, dir)
    IN  IF c.q > 0 /\ c.buf[c.q] # "/"
        THEN strcpy(c.buf, c.q, <<"/">> \o d_name)
        ELSE strcpy(c.buf, c.q, d_name)

-----------------------------------------------------------------------------
(* scan_directory: one frame per activation.                               *)

ZeroBuffer == [k \in 1..(PATH_MAX + 1) |-> NUL]

\* sb is not initialised by the source; it is read only after lstat wrote it.
NewFrame(dir) ==
    [dir |-> dir, at |-> "opendir", pd |-> <<>>,
     canonical_path |-> ZeroBuffer,
     sb |-> [st_mode |-> 0, st_uid |-> 0, st_gid |-> 0]]

Top == stack[Len(stack)]

SetTop(f) == [stack EXCEPT ![Len(stack)] = f]

InScan == pc = "scan" /\ stack # <<>>

\* return from scan_directory; the outermost activation returns to main's
\* for loop, which increments i.
Return ==
    /\ stack' = SubSeq(stack, 1, Len(stack) - 1)
    /\ IF Len(stack) = 1 THEN pc' = "main" /\ i' = i + 1
       ELSE UNCHANGED <<pc, i>>

Diag(kind, path) == [kind |-> kind, path |-> path]

Env == <<fs, RECORD_LESS_INTERESTING, g_uid, g_groups, argv>>
BucketVars == <<g_suid, g_sgid, g_writable, g_readable, g_executable>>

\* Lines 471-474: opendir fails.
OpendirFail ==
    /\ InScan /\ Top.at = "opendir"
    /\ ~opendir(Top.dir).ok
    /\ err' = Append(err, Diag("opendir", Top.dir))
    /\ Return
    /\ UNCHANGED <<Env, BucketVars, out, calls>>

OpendirOk ==
    /\ InScan /\ Top.at = "opendir"
    /\ opendir(Top.dir).ok
    /\ stack' = SetTop([Top EXCEPT !.at = "readdir", !.pd = opendir(Top.dir).val])
    /\ UNCHANGED <<Env, BucketVars, pc, i, out, err, calls>>

AtEntry == InScan /\ Top.at = "readdir" /\ Top.pd # <<>>

d_name == Head(Top.pd)

\* Lines 477-482.
IsDotOrDotDot(n) ==
    /\ Len(n) >= 1 /\ n[1] = "."
    /\ \/ Len(n) = 1
       \/ Len(n) = 2 /\ n[2] = "."

\* readdir returns NULL: closedir and return.
ReaddirEnd ==
    /\ InScan /\ Top.at = "readdir" /\ Top.pd = <<>>
    /\ Return
    /\ UNCHANGED <<Env, BucketVars, out, err, calls>>

SkipDot ==
    /\ AtEntry /\ IsDotOrDotDot(d_name)
    /\ stack' = SetTop([Top EXCEPT !.pd = Tail(@)])
    /\ UNCHANGED <<Env, BucketVars, pc, i, out, err, calls>>

\* Lines 484-488.
NameTooLong ==
    /\ AtEntry /\ ~IsDotOrDotDot(d_name)
    /\ LET c == my_stpcpy(Top.canonical_path, Top.dir)
       IN  /\ name_too_long(c.q, d_name)
           /\ stack' = SetTop([Top EXCEPT !.pd = Tail(@), !.canonical_path = c.buf])
    /\ err' = Append(err, Diag("toolong", Top.dir \o <<"/">> \o d_name))
    /\ UNCHANGED <<Env, BucketVars, pc, i, out, calls>>

Joinable ==
    /\ AtEntry /\ ~IsDotOrDotDot(d_name)
    /\ ~name_too_long(my_stpcpy(Top.canonical_path, Top.dir).q, d_name)

Candidate == join(Top.canonical_path, Top.dir, d_name)

\* Variant of LstatFail that gives up the whole run.
LstatFail_fatal ==
    /\ Joinable
    /\ ~lstat(CStr(Candidate)).ok
    /\ err' = Append(err, Diag("lstat", CStr(Candidate)))
    /\ pc' = "exit"
    /\ UNCHANGED <<Env, BucketVars, stack, i, out, calls>>

\* Lines 501-504.
LstatFail ==
    /\ Joinable
    /\ ~lstat(CStr(Candidate)).ok
    /\ stack' = SetTop([Top EXCEPT !.pd = Tail(@), !.canonical_path = Candidate])
    /\ err' = Append(err, Diag("lstat", CStr(Candidate)))
    /\ UNCHANGED <<Env, BucketVars, pc, i, out, calls>>

\* Lines 507-508.
SkipSymlink ==
    /\ Joinable
    /\ lstat(CStr(Candidate)).ok
    /\ S_ISLNK(lstat(CStr(Candidate)).val.st_mode)
    /\ stack' = SetTop([Top EXCEPT !.pd = Tail(@), !.canonical_path = Candidate,
                                   !.sb = lstat(CStr(Candidate)).val])
    /\ UNCHANGED <<Env, BucketVars, pc, i, out, err, calls>>

\* Variant of LstatOk that takes what stat(2) would report for a link: the
\* entry is never seen as a symbolic link.
LstatOk_follow ==
    /\ Joinable
    /\ lstat(CStr(Candidate)).ok
    /\ stack' = SetTop([Top EXCEPT !.pd = Tail(@), !.canonical_path = Candidate,
                                   !.sb = lstat(CStr(Candidate)).val,
                                   !.at = "classify"])
    /\ UNCHANGED <<Env, BucketVars, pc, i, out, err, calls>>

LstatOk ==
    /\ Joinable
    /\ lstat(CStr(Candidate)).ok
    /\ ~S_ISLNK(lstat(CStr(Candidate)).val.st_mode)
    /\ stack' = SetTop([Top EXCEPT !.pd = Tail(@), !.canonical_path = Candidate,
                                   !.sb = lstat(CStr(Candidate)).val,
                                   !.at = "classify"])
    /\ UNCHANGED <<Env, BucketVars, pc, i, out, err, calls>>

\* scan_directory(canonical_path) is entered when the entry is a directory
\* the identity may search (lines 513-515).
\* Variant of Descends without the permission test.
Descends_any_directory(sb) == S_ISDIR(sb.st_mode)

\* Variant of Descends that also asks for read permission.
Descends_needs_read(sb) ==
    S_ISDIR(sb.st_mode) /\ is_executable(sb) /\ is_readable(sb)

Descends(sb) == S_ISDIR(sb.st_mode) /\ is_executable(sb)

\* Lines 510-515 with every realloc succeeding.
Classify ==
    /\ InScan /\ Top.at = "classify"
    /\ SetBuckets(record_access_level(CStr(Top.canonical_path), Top.sb))
    /\ stack' = IF Descends(Top.sb)
                THEN Append(SetTop([Top EXCEPT !.at = "readdir"]),
                            NewFrame(CStr(Top.canonical_path)))
                ELSE SetTop([Top EXCEPT !.at = "readdir"])
    /\ UNCHANGED <<Env, pc, i, out, err, calls>>

\* Lines 415-419: realloc returns NULL while the entry is filed; exit(1).
ClassifyOutOfMemory ==
    /\ InScan /\ Top.at = "classify"
    /\ record_access_level(CStr(Top.canonical_path), Top.sb) # Buckets
    /\ err' = Append(err, Diag("oom", CStr(Top.canonical_path)))
    /\ pc' = "exit"
    /\ UNCHANGED <<Env, BucketVars, stack, i, out, calls>>

-----------------------------------------------------------------------------
(* main.                                                                   *)

argc == Len(argv)

\* Variant of MainResolveFail that reports the root and goes on to the next.
MainResolveFail_skip ==
    /\ pc = "main" /\ i < argc
    /\ ~realpath(argv[i + 1]).ok
    /\ err' = Append(err, Diag("resolve", argv[i + 1]))
    /\ i' = i + 1
    /\ UNCHANGED <<Env, BucketVars, stack, pc, out, calls>>

\* Lines 99-102: realpath fails, return 1.
MainResolveFail ==
    /\ pc = "main" /\ i < argc
    /\ ~realpath(argv[i + 1]).ok
    /\ err' = Append(err, Diag("resolve", argv[i + 1]))
    /\ pc' = "exit"
    /\ UNCHANGED <<Env, BucketVars, stack, i, out, calls>>

\* Line 104.
MainScan ==
    /\ pc = "main" /\ i < argc
    /\ realpath(argv[i + 1]).ok
    /\ stack' = <<NewFrame(realpath(argv[i + 1]).val)>>
    /\ calls' = Append(calls, realpath(argv[i + 1]).val)
    /\ pc' = "scan"
    /\ UNCHANGED <<Env, BucketVars, i, out, err>>

\* The buckets main reports, in order.
Reports ==
    <<report_findings("set-uid executable", g_suid),
      report_findings("set-gid executable", g_sgid),
      report_findings("writable", g_writable)>>
    \o (IF RECORD_LESS_INTERESTING
        THEN <<report_findings("readable", g_readable),
               report_findings("only executable", g_executable)>>
        ELSE <<>>)

RECURSIVE AllLines(_)
AllLines(reports) ==
    IF reports = <<>> THEN <<>>
    ELSE Head(reports).lines \o AllLines(Tail(reports))

\* Lines 107-116.
MainReport ==
    /\ pc = "main" /\ i >= argc
    /\ err' = err \o [k \in 1..Len(Reports) |-> Reports[k].header]
    /\ out' = out \o AllLines(Reports)
    /\ pc' = "done"
    /\ UNCHANGED <<Env, BucketVars, stack, i, calls>>

-----------------------------------------------------------------------------
(* obtain_user_info: the identity under evaluation, from the -u and -g     *)
(* options, and what it writes on the way.                                 *)

NGROUPS_MAX == 65536

\* getpwuid(3) on the user database (root and shell; each has the group of
\* the same number as its primary group).
getpwuid(uid) ==
    IF pw_name(uid) = "" THEN Failure
    ELSE Ok([pw_uid |-> uid, pw_name |-> pw_name(uid), pw_gid |-> uid])

\* getgrouplist(3): the primary group and the groups that list the user as
\* a member (none does).
getgrouplist(pw) == <<pw.pw_gid>>

\* in_group on the list being built.
in_groups(groups, gid) == \E k \in 1..Len(groups) : groups[k] = gid

\* Lines 152-161.
add_group(info, gid) ==
    IF Len(info.g_groups) + 1 >= NGROUPS_MAX
    THEN [info EXCEPT !.err = Append(@, [kind |-> "toomany", path |-> <<>>]),
                      !.exited = TRUE]
    ELSE [info EXCEPT !.g_groups = Append(@, gid)]

\* Lines 216-252: the groups of the -g option, given as numbers.
RECURSIVE append_groups(_, _)
append_groups(info, groups) ==
    IF groups = <<>> \/ info.exited THEN info
    ELSE LET gid == Head(groups)
             warned == IF gr_name(gid) = ""
                       THEN [info EXCEPT !.err =
                               Append(@, [kind |-> "nogid", path |-> <<>>,
                                          id |-> gid])]
                       ELSE info
             added == IF in_groups(warned.g_groups, gid) THEN warned
                      ELSE add_group(warned, gid)
         IN  append_groups(added, Tail(groups))

\* Lines 167-270, for -u user (a number) and -g groups (numbers, <<>> when
\* the option is absent): g_uid, g_groups, what went to stderr and stdout,
\* and whether the process exited.
obtain_user_info(user, groups) ==
    LET pw == getpwuid(user)
        found == [g_uid |-> user,
                  g_groups |-> IF pw.ok THEN getgrouplist(pw.val) ELSE <<>>,
                  err |-> IF pw.ok THEN <<>>
                          ELSE <<[kind |-> "nouid", path |-> <<>>,
                                  id |-> user]>>,
                  exited |-> FALSE]
        all == append_groups(found, groups)
        line == [kind |-> "identity", uid |-> all.g_uid,
                 user |-> IF pw.ok THEN pw.val.pw_name ELSE "?",
                 groups |-> [k \in 1..Len(all.g_groups) |->
                               [gid |-> all.g_groups[k],
                                name |-> IF gr_name(all.g_groups[k]) = ""
                                         THEN "?"
                                         ELSE gr_name(all.g_groups[k])]]]
    IN  [g_uid |-> all.g_uid, g_groups |-> all.g_groups, err |-> all.err,
         out |-> IF all.exited THEN <<>> ELSE <<line>>,
         exited |-> all.exited]

-----------------------------------------------------------------------------
(* The runs: options, arguments and file system are fixed when main        *)
(* starts; a run is followed from the start of main's loop.                *)

Stat(m, u, g) == [st_mode |-> m, st_uid |-> u, st_gid |-> g]

\* The metadata each object may carry.
StatChoices(n) ==
    CASE n = 1  -> {Stat(\o040755, 0, 0)}
      [] n = 2  -> {Stat(\o041777, 0, 0)}
      [] n = 3  -> {Stat(\o040755, 0, 0), Stat(\o040700, 0, 0)}
      [] n = 4  -> {Stat(\o104755, 0, 0), Stat(\o100700, 2000, 2000),
                    Stat(\o062770, 0, 1000)}
      [] n = 5  -> {Stat(\o040110, 1000, 1000), Stat(\o040666, 1000, 1000),
                    Stat(\o040755, 0, 0)}
      [] n = 6  -> {Stat(\o100666, 0, 0), Stat(\o146777, 0, 0)}
      [] n = 7  -> {Stat(\o120777, 0, 0)}
      [] n = 8  -> {Stat(\o100666, 0, 0)}
      [] n = 9  -> {Stat(\o040751, 2000, 2000)}
      [] n = 10 -> {Stat(\o020644, 0, 0)}
      [] n = 11 -> {Stat(\o010622, 0, 0)}

\* Which opendir and lstat calls fail (EACCES, EIO, a race with unlink).
FaultChoices ==
    { [openfail |-> {},  lstatfail |-> {}],
      [openfail |-> {5}, lstatfail |-> {}],
      [openfail |-> {},  lstatfail |-> {6}],
      [openfail |-> {9}, lstatfail |-> {4}] }

\* The objects whose metadata is the same in every run.
FixedStat(n) == CHOOSE s \in StatChoices(n) : TRUE

FsChoices ==
    { [stat |-> [n \in Nodes |-> CASE n = 3 -> s3 [] n = 4 -> s4 [] n = 5 -> s5
                                    [] n = 6 -> s6 [] OTHER -> FixedStat(n)],
       openfail |-> f.openfail, lstatfail |-> f.lstatfail] :
        s3 \in StatChoices(3), s4 \in StatChoices(4), s5 \in StatChoices(5),
        s6 \in StatChoices(6), f \in FaultChoices }

\* The -u and -g options: a user with an account, root, a user without.
OptionChoices ==
    { [user |-> 1000, groups |-> <<>>],
      [user |-> 0,    groups |-> <<>>],
      [user |-> 2000, groups |-> <<>>] }

Slash == <<"/">>
NoSuch == <<"/", "x">>

\* root//d/link/./f: relative, a repeated separator, a link in the middle.
ViaLink ==
    NodeName(3) \o <<"/", "/">> \o NodeName(5) \o Slash \o NodeName(7)
        \o <<"/", ".", "/">> \o NodeName(10)

\* /tmp/../tmp/root
UpAndDown == Paths[2] \o <<"/", ".", ".">> \o Paths[3]

\* /tmp/././././././root/: longer than PATH_MAX, canonical form /tmp/root.
LongArg ==
    Paths[2] \o <<"/", ".", "/", ".", "/", ".", "/", ".", "/", ".", "/", ".">>
        \o Slash \o NodeName(3) \o Slash

\* root/d/longname: short, canonical form PATH_MAX long.
LongResult ==
    NodeName(3) \o Slash \o NodeName(5) \o Slash \o NodeName(8)

ArgvChoices ==
    { <<>>,
      <<LongArg>>,
      <<LongResult>>,
      <<Slash>>,
      <<NodeName(3) \o Slash \o NodeName(5), UpAndDown>>,
      <<Paths[3], Paths[4] \o Slash, Paths[5]>>,
      <<Paths[7], ViaLink>>,
      <<NoSuch>> }

Init ==
    /\ fs \in FsChoices
    /\ RECORD_LESS_INTERESTING \in BOOLEAN
    /\ \E opt \in OptionChoices :
         LET info == obtain_user_info(opt.user, opt.groups)
         IN  /\ g_uid = info.g_uid /\ g_groups = info.g_groups
             /\ out = info.out /\ err = info.err
             /\ pc = IF info.exited THEN "exit" ELSE "main"
    /\ argv \in ArgvChoices
    /\ i = 0
    /\ stack = <<>>
    /\ g_suid = NoEntries /\ g_sgid = NoEntries /\ g_writable = NoEntries
    /\ g_readable = NoEntries /\ g_executable = NoEntries
    /\ calls = <<>>

Next ==
    \/ MainResolveFail
    \/ MainScan
    \/ MainReport
    \/ OpendirFail
    \/ OpendirOk
    \/ ReaddirEnd
    \/ SkipDot
    \/ NameTooLong
    \/ LstatFail
    \/ SkipSymlink
    \/ LstatOk
    \/ Classify
    \/ ClassifyOutOfMemory

Spec == Init /\ [][Next]_vars

-----------------------------------------------------------------------------
(* The classification step on its own: an entry whose lstat has just       *)
(* succeeded, with any permission bits, owner and identity.                *)

\* Every combination of set-uid, set-gid and the nine permission bits.
ProbeModes == { S_IFREG + sg * \o2000 + m : sg \in 0..3, m \in 0..511 }

ProbeOptions ==
    { [user |-> 0,    groups |-> <<>>],
      [user |-> 1000, groups |-> <<>>],
      [user |-> 2000, groups |-> <<5, 1000>>] }

ProbePath == <<"/", "x">>

InitEval ==
    /\ fs = CHOOSE f \in FsChoices : TRUE
    /\ RECORD_LESS_INTERESTING \in BOOLEAN
    /\ \E opt \in ProbeOptions :
         LET info == obtain_user_info(opt.user, opt.groups)
         IN  /\ g_uid = info.g_uid /\ g_groups = info.g_groups
             /\ out = info.out /\ err = info.err
    /\ argv = <<Slash>>
    /\ i = 0
    /\ pc = "scan"
    /\ \E m \in ProbeModes, u \in {0, 1000}, g \in {0, 1000} :
         stack = <<[NewFrame(Slash) EXCEPT
                      !.at = "classify",
                      !.canonical_path = join(ZeroBuffer, Slash, <<"x">>),
                      !.sb = Stat(m, u, g)]>>
    /\ g_suid = NoEntries /\ g_sgid = NoEntries /\ g_writable = NoEntries
    /\ g_readable = NoEntries /\ g_executable = NoEntries
    /\ calls = <<Slash>>

NextEval ==
    \/ Classify
    \/ ClassifyOutOfMemory

SpecEval == InitEval /\ [][NextEval]_vars

-----------------------------------------------------------------------------
(* Vocabulary of the properties, independent of the operators above.       *)

\* Bit test by division; mask is a power of two.
HasBit(m, mask) == (m \div mask) % 2 = 1

IsLinkMode(m) == (m \div 4096) % 16 = 10
IsDirMode(m)  == (m \div 4096) % 16 = 4

Records(b) == { b.head[k] : k \in 1..b.idx }
RecordedPaths(b) == { e.path : e \in Records(b) }

BucketNames == {"g_suid", "g_sgid", "g_writable", "g_readable", "g_executable"}

AllRecords == UNION { Records(Buckets[n]) : n \in BucketNames }

\* The proper ancestors of an object in the tree.
RECURSIVE Ancestors(_)
Ancestors(n) ==
    IF NodeParent(n) = 0 THEN {}
    ELSE {NodeParent(n)} \cup Ancestors(NodeParent(n))

\* The objects located below directory d.
Below(d) == { n \in Nodes : d \in Ancestors(n) }

-----------------------------------------------------------------------------
\* C1: in every state of a scan over the roots, no path has records in two
\* different buckets.
C1_OneBucketPerPath ==
    \A n1, n2 \in BucketNames :
        n1 # n2 => RecordedPaths(Buckets[n1]) \cap RecordedPaths(Buckets[n2]) = {}

\* Two overlapping roots were scanned: an object matching several categories
\* has been filed twice, both times in the set-uid bucket.
C1_Witness ==
    /\ pc = "done" /\ Len(calls) = 2
    /\ \E j, k \in 1..g_suid.idx :
         /\ j # k
         /\ g_suid.head[j].path = g_suid.head[k].path
         /\ HasBit(g_suid.head[j].statbuf.st_mode, \o2000)
         /\ HasBit(g_suid.head[j].statbuf.st_mode, \o002)

-----------------------------------------------------------------------------
\* The bucket the priority chain of section 4.2 names for sb, "none" when no
\* category matches.
ChainBucket(sb) ==
    IF is_setuid(sb) THEN "g_suid"
    ELSE IF is_setgid(sb) THEN "g_sgid"
    ELSE IF is_writable(sb) THEN "g_writable"
    ELSE IF RECORD_LESS_INTERESTING /\ is_readable(sb) THEN "g_readable"
    ELSE IF RECORD_LESS_INTERESTING /\ is_executable(sb) THEN "g_executable"
    ELSE "none"

Classified == stack # <<>> /\ stack[1].at = "readdir"

\* C2: once record_access_level has run on an entry, the entry is the single
\* record of the first matching bucket of the chain set-uid, set-gid,
\* writable, (extended) readable, only-executable, and every other bucket is
\* untouched; a set-uid object the identity may execute is in the set-uid
\* bucket whatever its other bits are.
C2_FirstMatchWins ==
    Classified =>
        LET sb == stack[1].sb
            e  == [path |-> ProbePath, statbuf |-> sb]
        IN  /\ \A n \in BucketNames :
                 Buckets[n] = IF n = ChainBucket(sb)
                              THEN [len |-> 1, idx |-> 1, head |-> <<e>>]
                              ELSE NoEntries
            /\ (HasBit(sb.st_mode, \o4000) /\ is_executable(sb))
                 => (AllRecords = {e} /\ Records(g_suid) = {e})

\* A set-uid, set-gid, world-writable object the identity may execute has
\* been classified.
C2_Witness ==
    /\ Classified
    /\ HasBit(stack[1].sb.st_mode, \o4000)
    /\ HasBit(stack[1].sb.st_mode, \o2000)
    /\ HasBit(stack[1].sb.st_mode, \o002)
    /\ g_uid # 0
    /\ g_suid.idx = 1

-----------------------------------------------------------------------------
\* Owner/group/other evaluation of one permission class, with no special
\* case for any uid.
ClassAccess(sb, usr, grp, oth) ==
    \/ HasBit(sb.st_mode, oth)
    \/ HasBit(sb.st_mode, usr) /\ sb.st_uid = g_uid
    \/ HasBit(sb.st_mode, grp) /\ \E k \in DOMAIN g_groups : g_groups[k] = sb.st_gid

\* C3: for uid 0 is_executable is true for every mode and owner; is_writable
\* and is_readable are, for every uid including 0, exactly the
\* owner/group/other evaluation.
C3_RootBypassExecuteOnly ==
    \A k \in DOMAIN stack :
        LET sb == stack[k].sb
        IN  /\ g_uid = 0 => is_executable(sb)
            /\ is_executable(sb) = (g_uid = 0 \/ ClassAccess(sb, \o100, \o010, \o001))
            /\ is_writable(sb) = ClassAccess(sb, \o200, \o020, \o002)
            /\ is_readable(sb) = ClassAccess(sb, \o400, \o040, \o004)

\* Root has classified an object that grants nothing to anybody but its
\* owner, uid 1000: it is filed as only executable.
C3_Witness ==
    /\ Classified
    /\ g_uid = 0
    /\ stack[1].sb.st_uid = 1000
    /\ stack[1].sb.st_mode = S_IFREG + \o600
    /\ g_executable.idx = 1
    /\ g_writable.idx = 0 /\ g_readable.idx = 0

-----------------------------------------------------------------------------
\* C4: no bucket holds a symbolic link, and no activation of scan_directory
\* runs on a path whose lstat metadata is a symbolic link.
C4_NoSymlinks ==
    /\ \A e \in AllRecords : ~IsLinkMode(e.statbuf.st_mode)
    /\ \A k \in DOMAIN stack :
         LET n == Lookup(stack[k].dir)
         IN  n # 0 => ~IsLinkMode(fs.stat[n].st_mode)

\* The walker has met a link with every permission bit set, pointing at a
\* directory, has moved on to the next entries, and main has finished.
C4_Witness ==
    /\ pc = "done"
    /\ Paths[5] \in { c : c \in { calls[k] : k \in DOMAIN calls } }
    /\ fs.stat[7].st_mode = S_IFLNK + \o777
    /\ IsDirMode(fs.stat[LinkTarget(7)].st_mode)
    /\ Paths[6] \in RecordedPaths(g_writable)

-----------------------------------------------------------------------------
AllRecordedPaths == { e.path : e \in AllRecords }

\* The objects the roots handed to scan_directory name.
RootNodes == { Lookup(calls[k]) : k \in DOMAIN calls }

\* C5 as stated, read off the end of a run: every directory scan_directory
\* was invoked on grants execute, and nothing below a directory that denies
\* execute has been recorded.
C5_Original ==
    pc = "done" =>
        /\ \A r \in RootNodes :
             IsDirMode(fs.stat[r].st_mode) => is_executable(fs.stat[r])
        /\ \A n \in Nodes :
             Paths[n] \in AllRecordedPaths =>
                \A a \in Ancestors(n) :
                    IsDirMode(fs.stat[a].st_mode) => is_executable(fs.stat[a])
        /\ \A d \in Nodes :
             (IsDirMode(fs.stat[d].st_mode) /\ ~is_executable(fs.stat[d]))
                => \A n \in Below(d) : Paths[n] \notin AllRecordedPaths

\* C5, amended: every activation entered from a directory entry runs on a
\* directory that grants execute (the roots are scanned without the test);
\* every recorded object lies below a scanned root with execute granted by
\* each directory between the two, so an object below a directory denying
\* execute is recorded only through a root that is this directory or lies
\* below it.
C5_DescentNeedsExecute ==
    /\ \A k \in 2..Len(stack) :
         LET n == Lookup(stack[k].dir)
         IN  n # 0 /\ IsDirMode(fs.stat[n].st_mode) /\ is_executable(fs.stat[n])
    /\ \A n \in Nodes :
         Paths[n] \in AllRecordedPaths =>
            \E r \in RootNodes :
                /\ n \in Below(r)
                /\ \A a \in Ancestors(n) \cap Below(r) : is_executable(fs.stat[a])
    /\ \A d \in Nodes :
         (IsDirMode(fs.stat[d].st_mode) /\ ~is_executable(fs.stat[d]))
            => \A n \in Below(d) :
                 Paths[n] \in AllRecordedPaths =>
                    \E r \in RootNodes : (r = d \/ r \in Below(d)) /\ n \in Below(r)

\* The scan of /tmp/root is over: d denies execute and was itself filed as
\* writable, its entry secret is writable, and nothing below d is recorded.
C5_Witness ==
    /\ pc = "done"
    /\ RootNodes = {3}
    /\ ~is_executable(fs.stat[5])
    /\ Paths[5] \in RecordedPaths(g_writable)
    /\ is_writable(fs.stat[6])
    /\ \A n \in Below(5) : Paths[n] \notin AllRecordedPaths

-----------------------------------------------------------------------------
(* The order of discovery, read off the tree: depth first, a directory     *)
(* before its entries, entries in listing order, roots in argument order.  *)

Child(d, name) ==
    IF \E c \in Nodes : NodeParent(c) = d /\ NodeName(c) = name
    THEN CHOOSE c \in Nodes : NodeParent(c) = d /\ NodeName(c) = name
    ELSE 0

Fits(d, name) == Len(Paths[d]) + Len(name) < PATH_MAX - 1

RECURSIVE DiscoverDir(_), DiscoverList(_, _)
DiscoverDir(d) ==
    IF d = 0 \/ d \in fs.openfail THEN <<>>
    ELSE IF ~IsDirMode(fs.stat[d].st_mode) THEN <<>>
    ELSE DiscoverList(d, Listing(d))

DiscoverList(d, names) ==
    IF names = <<>> THEN <<>>
    ELSE LET name == Head(names)
             c == Child(d, name)
             here ==
                IF name \in {Dot, DotDot} \/ c = 0 \/ ~Fits(d, name) THEN <<>>
                ELSE IF c \in fs.lstatfail \/ IsLinkMode(fs.stat[c].st_mode) THEN <<>>
                ELSE <<[path |-> Paths[c], statbuf |-> fs.stat[c]]>>
                     \o (IF IsDirMode(fs.stat[c].st_mode) /\ is_executable(fs.stat[c])
                         THEN DiscoverDir(c) ELSE <<>>)
         IN  here \o DiscoverList(d, Tail(names))

RECURSIVE DiscoverRoots(_)
DiscoverRoots(k) ==
    IF k > argc THEN <<>>
    ELSE LET r == realpath(argv[k])
         IN  IF ~r.ok THEN <<>>
             ELSE DiscoverDir(Lookup(r.val)) \o DiscoverRoots(k + 1)

InChain(name, e) == ChainBucket(e.statbuf) = name

Expected(name) == SelectSeq(DiscoverRoots(1), LAMBDA e : InChain(name, e))

Stored(b) == SubSeq(b.head, 1, b.idx)

IsPrefix(s, t) == Len(s) <= Len(t) /\ SubSeq(t, 1, Len(s)) = s

\* C6: every step leaves each bucket as it was or adds one record at its
\* end, after which the bucket is a prefix of the depth-first pre-order
\* discovery sequence of the roots restricted to its category; when main
\* returns 0 each bucket is the whole of that sequence.
C6_DiscoveryOrder ==
    [][\A n \in BucketNames :
          /\ \/ Buckets'[n] = Buckets[n]
             \/ /\ Buckets'[n].idx = Buckets[n].idx + 1
                /\ Buckets'[n].len = Buckets'[n].idx
                /\ SubSeq(Stored(Buckets'[n]), 1, Buckets[n].idx) = Stored(Buckets[n])
                /\ IsPrefix(Stored(Buckets'[n]), Expected(n))
          /\ pc' = "done" => Stored(Buckets'[n]) = Expected(n)]_vars

\* Two roots were scanned, /tmp/root/d before /tmp/root: the writable bucket
\* holds secret from the first root, then .h, d and secret from the second.
C6_Witness ==
    /\ pc = "done"
    /\ calls = <<Paths[5], Paths[3]>>
    /\ g_writable.idx >= 4
    /\ g_writable.head[1].path = Paths[6]
    /\ g_writable.head[2].path = Paths[11]
    /\ g_writable.head[3].path = Paths[5]
    /\ g_writable.head[4].path = Paths[6]

-----------------------------------------------------------------------------
LocalFailures == {"opendir", "lstat", "toolong"}

Kinds == { err[k].kind : k \in DOMAIN err }

\* C7: a step that reports an opendir failure drops only the activation of
\* that directory; a step that reports an lstat failure or a name too long
\* drops only that entry; either leaves every bucket and the pending entries
\* of the enclosing directories as they were and does not end the process,
\* and a run that returns 0 has scanned every root.
C7_FailuresAreLocal ==
    [][/\ (Len(err') = Len(err) + 1 /\ err'[Len(err')].kind \in LocalFailures) =>
            /\ Buckets' = Buckets
            /\ out' = out
            /\ pc' \in {"scan", "main"}
            /\ IF err'[Len(err')].kind = "opendir"
               THEN /\ stack' = SubSeq(stack, 1, Len(stack) - 1)
                    /\ pc' = (IF Len(stack) = 1 THEN "main" ELSE "scan")
               ELSE /\ Len(stack') = Len(stack)
                    /\ SubSeq(stack', 1, Len(stack) - 1) = SubSeq(stack, 1, Len(stack) - 1)
                    /\ stack'[Len(stack)].pd = Tail(stack[Len(stack)].pd)
                    /\ stack'[Len(stack)].at = "readdir"
                    /\ stack'[Len(stack)].dir = stack[Len(stack)].dir
                    /\ pc' = "scan"
       /\ pc' = "done" => Len(calls') = argc]_vars

\* A run with all three kinds of failure came to its end with both roots
\* scanned and records filed after the failures.
C7_Witness ==
    /\ pc = "done"
    /\ LocalFailures \subseteq Kinds
    /\ Len(calls) = 2
    /\ g_writable.idx >= 3

-----------------------------------------------------------------------------
\* C8 as stated: when the scan of a root is over, every object below the
\* root that is no symbolic link, whose ancestors below the root all grant
\* execute and which matches a category is recorded in that bucket.
C8_Original ==
    \A k \in 1..i :
        LET r == Lookup(calls[k])
        IN  \A n \in Below(r) :
              ( /\ ~IsLinkMode(fs.stat[n].st_mode)
                /\ \A a \in Ancestors(n) \cap Below(r) : is_executable(fs.stat[a])
                /\ ChainBucket(fs.stat[n]) # "none" )
              => [path |-> Paths[n], statbuf |-> fs.stat[n]]
                    \in Records(Buckets[ChainBucket(fs.stat[n])])

\* The walker gets as far as object n from root r: every directory on the
\* way opens, and lstat succeeds and the name fits for every step down.
Unhindered(r, n) ==
    /\ r \notin fs.openfail
    /\ \A a \in Ancestors(n) \cap Below(r) : a \notin fs.openfail
    /\ \A a \in (Ancestors(n) \cap Below(r)) \cup {n} :
         a \notin fs.lstatfail /\ Fits(NodeParent(a), NodeName(a))

\* C8, amended: when the scan of a root is over, every object below the root
\* that is no symbolic link, whose ancestors below the root all grant
\* execute, which matches a category, and on the way to which no opendir or
\* lstat failed and no name was too long, is recorded in that bucket.
C8_ReachedIsRecorded ==
    \A k \in 1..i :
        LET r == Lookup(calls[k])
        IN  \A n \in Below(r) :
              ( /\ ~IsLinkMode(fs.stat[n].st_mode)
                /\ \A a \in Ancestors(n) \cap Below(r) : is_executable(fs.stat[a])
                /\ ChainBucket(fs.stat[n]) # "none"
                /\ Unhindered(r, n) )
              => [path |-> Paths[n], statbuf |-> fs.stat[n]]
                    \in Records(Buckets[ChainBucket(fs.stat[n])])

\* Identity uid 1000 with gid 1000, d of mode 0110 owned by 1000:1000, secret
\* of mode 0666: the scan of /tmp/root is over and secret is in writable.
C8_Witness ==
    /\ pc = "done"
    /\ g_uid = 1000 /\ g_groups = <<1000>>
    /\ calls = <<Paths[3]>>
    /\ fs.stat[5] = [st_mode |-> S_IFDIR + \o110, st_uid |-> 1000, st_gid |-> 1000]
    /\ fs.stat[6].st_mode = S_IFREG + \o666
    /\ Paths[6] \in RecordedPaths(g_writable)

-----------------------------------------------------------------------------
\* The first argument from the k-th on that realpath fails on, 0 when there
\* is none.
RECURSIVE FirstBadFrom(_)
FirstBadFrom(k) ==
    IF k > argc THEN 0
    ELSE IF ~realpath(argv[k]).ok THEN k
    ELSE FirstBadFrom(k + 1)

FirstBad == FirstBadFrom(1)

\* C9: a root is handed to scan_directory only from main, as the canonical
\* form of the next argument in command-line order, after every argument
\* before it resolved and was scanned; when realpath fails on an argument the
\* step ends the process with status 1 and a diagnostic naming it, touching
\* no bucket and printing nothing; an ended process takes no further step
\* (no later root is scanned, report_findings never runs); main returns 0
\* only when every argument resolved and was scanned.
C9_AbortOnBadRoot ==
    [][/\ calls' # calls =>
            /\ pc = "main" /\ i < argc /\ Len(calls) = i
            /\ realpath(argv[i + 1]) = [ok |-> TRUE, val |-> calls'[i + 1]]
            /\ calls' = Append(calls, calls'[i + 1])
            /\ FirstBad = 0 \/ FirstBad > i + 1
       /\ i' # i => (i' = i + 1 /\ Len(calls) = i')
       /\ (pc = "main" /\ i < argc /\ ~realpath(argv[i + 1]).ok) =>
            /\ pc' = "exit"
            /\ err' = Append(err, [kind |-> "resolve", path |-> argv[i + 1]])
            /\ FirstBad = i + 1
            /\ calls' = calls /\ out' = out /\ Buckets' = Buckets
            /\ "found" \notin Kinds
       /\ pc # "exit"
       /\ pc' = "done" => (FirstBad = 0 /\ Len(calls) = argc)]_vars

\* realpath failed on the second of three arguments: the process has exited,
\* one root was scanned and filled a bucket, and nothing was reported.
C9_Witness ==
    /\ pc = "exit"
    /\ "resolve" \in Kinds
    /\ argc = 3 /\ Len(calls) = 1
    /\ g_writable.idx > 0
    /\ Len(out) = 1 /\ out[1].kind = "identity"
    /\ "found" \notin Kinds

-----------------------------------------------------------------------------
\* D, one separator unless D ends with one, then n.
Joined(D, n) == IF D[Len(D)] = "/" THEN D \o n ELSE D \o <<"/">> \o n

PathsInBounds ==
    /\ \A k \in DOMAIN stack :
         /\ Len(stack[k].canonical_path) = PATH_MAX + 1
         /\ Len(stack[k].dir) >= 1
         /\ Len(stack[k].dir) <= PATH_MAX - 1
         /\ Len(CStr(stack[k].canonical_path)) <= PATH_MAX - 1
    /\ \A e \in AllRecords : Len(e.path) <= PATH_MAX - 1
    /\ \A k \in DOMAIN err : err[k].kind = "lstat" => Len(err[k].path) <= PATH_MAX - 1

\* C10: at an entry n of directory D other than . and .., if
\* len(D) + len(n) >= PATH_MAX - 1 the step reports the name as too long and
\* moves to the next entry, else the path built in canonical_path is D, one
\* separator unless D ends with one, then n; every path in a frame, a record
\* or an lstat diagnostic is at most PATH_MAX - 1 long and canonical_path
\* stays within its PATH_MAX + 1 bytes.
C10_PathLengthBound ==
    [][/\ PathsInBounds'
       /\ (InScan /\ Top.at = "readdir" /\ Top.pd # <<>>
             /\ Head(Top.pd) \notin {Dot, DotDot}) =>
            LET D == Top.dir
                n == Head(Top.pd)
                f == stack'[Len(stack)]
            IN  IF Len(D) + Len(n) >= PATH_MAX - 1
                THEN /\ err' = Append(err, [kind |-> "toolong", path |-> D \o <<"/">> \o n])
                     /\ Len(stack') = Len(stack)
                     /\ f.pd = Tail(Top.pd) /\ f.at = "readdir"
                     /\ Buckets' = Buckets /\ pc' = pc
                ELSE /\ CStr(f.canonical_path) = Joined(D, n)
                     /\ f.pd = Tail(Top.pd)
                     /\ Len(err') > Len(err) => err'[Len(err')].path = Joined(D, n)]_vars

\* The scan of / is over: /tmp was built without a second separator, secret
\* was recorded and longname under the same directory was reported too long.
C10_Witness ==
    /\ pc = "done"
    /\ calls = <<Slash>>
    /\ "toolong" \in Kinds
    /\ Paths[2] \in AllRecordedPaths
    /\ Paths[6] \in AllRecordedPaths
    /\ Paths[8] \notin AllRecordedPaths

====
